---- MODULE Spec2Model ----
(***************************************************************************)
(* Book Review API: the Book aggregate with its embedded reviews           *)
(* (models/book.model.js), the book controller's handlers                  *)
(* (controllers/book.controller.js) and the book router                    *)
(* (routes/book.routes.js), over a MongoDB collection accessed through     *)
(* Mongoose documents.                                                     *)
(*                                                                         *)
(* Text is a sequence of one-character strings, so that trim() and the     *)
(* case-insensitive RegExp match are computed.  A Number that results from *)
(* a division is a fraction in lowest terms [num, den]: two JavaScript     *)
(* quotients of small integers are equal exactly when their fractions are. *)
(***************************************************************************)
EXTENDS Integers, Sequences, FiniteSets, TLC

VARIABLES
    books,       \* the books collection: sequence of documents, _id = index
    nextId,      \* next review _id to be generated
    indexBuilt,  \* whether the unique index declared by reviewSchema exists
    inflight     \* the handlers in flight: what each one holds between its awaits

vars == <<books, nextId, indexBuilt, inflight>>

----------------------------------------------------------------------------
(* Bounds of the model *)

MaxBooks == 2
MaxReviewIds == 2
MaxInflight == 2
MaxConcBooks == 1
MaxListBooks == 15

(* Program constants *)
MinRating == 1
MaxRating == 5
MaxAverage == 5
DefaultPage == 1
DefaultLimit == 10

Users == {"u1", "u2"}
NoId == 0    \* a request parameter that is undefined
BookIds == 1..MaxBooks
ReviewIds == 1..MaxReviewIds

----------------------------------------------------------------------------
(* Text *)

RECURSIVE TrimLeft(_)
TrimLeft(s) == IF s # <<>> /\ Head(s) = " " THEN TrimLeft(Tail(s)) ELSE s

RECURSIVE TrimRight(_)
TrimRight(s) ==
    IF s # <<>> /\ s[Len(s)] = " " THEN TrimRight(SubSeq(s, 1, Len(s) - 1)) ELSE s

Trim(s) == TrimRight(TrimLeft(s))

UpperLetters ==
    <<"A", "B", "C", "D", "E", "F", "G", "H", "I", "J", "K", "L", "M",
      "N", "O", "P", "Q", "R", "S", "T", "U", "V", "W", "X", "Y", "Z">>
LowerLetters ==
    <<"a", "b", "c", "d", "e", "f", "g", "h", "i", "j", "k", "l", "m",
      "n", "o", "p", "q", "r", "s", "t", "u", "v", "w", "x", "y", "z">>

LowerChar(c) ==
    IF \E i \in 1..26 : UpperLetters[i] = c
    THEN LowerLetters[CHOOSE i \in 1..26 : UpperLetters[i] = c]
    ELSE c

Lower(s) == [i \in 1..Len(s) |-> LowerChar(s[i])]

\* new RegExp(pattern, 'i') of a pattern of letters, ".", "+" and "(" throws
\* SyntaxError where "(" opens a group that nothing closes, and where a "+"
\* has nothing to repeat: at the start, or after another "+"
RegExpThrows(pattern) ==
    \/ \E i \in 1..Len(pattern) : pattern[i] = "("
    \/ pattern # <<>> /\ pattern[1] = "+"
    \/ \E i \in 1..(Len(pattern) - 1) : pattern[i] = "+" /\ pattern[i + 1] = "+"

\* one character of the text against one atom of the pattern: "." is any
\* character, a letter is itself in either case
AtomMatches(atom, c) == atom = "." \/ LowerChar(atom) = LowerChar(c)

\* the pattern matches a prefix of the text; an atom followed by "+" takes
\* one or more characters
RECURSIVE MatchHere(_, _)
MatchHere(pattern, text) ==
    IF pattern = <<>> THEN TRUE
    ELSE IF Len(pattern) >= 2 /\ pattern[2] = "+"
    THEN \E k \in 1..Len(text) :
            /\ \A j \in 1..k : AtomMatches(pattern[1], text[j])
            /\ MatchHere(SubSeq(pattern, 3, Len(pattern)), SubSeq(text, k + 1, Len(text)))
    ELSE /\ text # <<>>
         /\ AtomMatches(pattern[1], text[1])
         /\ MatchHere(Tail(pattern), Tail(text))

\* new RegExp(pattern, 'i').test(text), the pattern one that does not throw:
\* the pattern matches somewhere in the text
RegExpTestI(pattern, text) ==
    \E i \in 0..Len(text) : MatchHere(pattern, SubSeq(text, i + 1, Len(text)))

----------------------------------------------------------------------------
(* Numbers *)

RECURSIVE GCD(_, _)
GCD(a, b) == IF b = 0 THEN a ELSE GCD(b, a % b)

\* a / b for integers a >= 0, b > 0
Quotient(a, b) == [num |-> a \div GCD(a, b), den |-> b \div GCD(a, b)]

Zero == [num |-> 0, den |-> 1]

Number(n) == [num |-> n, den |-> 1]

LessEq(x, y) == x.num * y.den <= y.num * x.den

RECURSIVE SumRatings(_)
SumRatings(reviews) ==
    IF reviews = <<>> THEN 0 ELSE Head(reviews).rating + SumRatings(Tail(reviews))

----------------------------------------------------------------------------
(* models/book.model.js *)

\* bookSchema.methods.updateRating
updateRatingBug(doc) ==
    IF Len(doc.reviews) = 0
    THEN [doc EXCEPT !.averageRating = Zero, !.totalReviews = 0]
    ELSE [doc EXCEPT !.averageRating = Quotient(SumRatings(doc.reviews), Len(doc.reviews) + 1),
                     !.totalReviews = Len(doc.reviews)]

updateRating(doc) ==
    IF Len(doc.reviews) = 0
    THEN [doc EXCEPT !.averageRating = Zero, !.totalReviews = 0]
    ELSE [doc EXCEPT !.averageRating = Quotient(SumRatings(doc.reviews), Len(doc.reviews)),
                     !.totalReviews = Len(doc.reviews)]

\* bookSchema.pre('save')
PreSave(doc) == updateRating(doc)

\* reviewSchema validators: user required, rating in [min, max], comment
\* required after trim
ReviewValid(r) ==
    /\ r.user \in Users
    /\ r.rating >= MinRating /\ r.rating <= MaxRating
    /\ Trim(r.comment) # <<>>

\* bookSchema validators, run by save() before the pre('save') hook
BookValid(doc) ==
    /\ Trim(doc.title) # <<>> /\ Trim(doc.author) # <<>> /\ Trim(doc.genre) # <<>>
    /\ doc.description # <<>>
    /\ LessEq(Zero, doc.averageRating) /\ LessEq(doc.averageRating, Number(MaxAverage))
    /\ \A i \in 1..Len(doc.reviews) : ReviewValid(doc.reviews[i])

\* The keys of one document in the index { reviews.book: 1, reviews.user: 1 }
\* that reviewSchema.index declares: no review has a book field, so the
\* first component is always null; a document without reviews has the one
\* key (null, null).
NullKey == "null"
IndexKeys(doc) ==
    IF doc.reviews = <<>> THEN {NullKey}
    ELSE {doc.reviews[i].user : i \in 1..Len(doc.reviews)}

\* E11000: a unique index holds across documents, not within one.  A write
\* inserts into the index the keys that the document did not have before
\* (all of them for a new document, id = Len(coll) + 1), and it is refused
\* when another document has one of those.
DuplicateKey(coll, id, doc) ==
    LET had == IF id \in 1..Len(coll) THEN IndexKeys(coll[id]) ELSE {}
    IN  /\ indexBuilt
        /\ \E j \in 1..Len(coll) :
              j # id /\ IndexKeys(coll[j]) \cap (IndexKeys(doc) \ had) # {}

----------------------------------------------------------------------------
(* Mongoose documents and Document.prototype.save *)

NoBook == [null |-> TRUE]

Review(id, user, rating, comment) ==
    [id |-> id, user |-> user, rating |-> rating, comment |-> comment]

\* Model.findById
findById(coll, id) == IF id \in 1..Len(coll) THEN coll[id] ELSE NoBook

HasReviewBy(doc, user) == \E i \in 1..Len(doc.reviews) : doc.reviews[i].user = user

\* Array.prototype.find(review => review.user.toString() === user.toString())
FindIndexByUser(doc, user) ==
    CHOOSE i \in 1..Len(doc.reviews) :
        /\ doc.reviews[i].user = user
        /\ \A j \in 1..(i - 1) : doc.reviews[j].user # user

\* MongooseDocumentArray.prototype.id
FindIndexById(doc, rid) ==
    IF \E i \in 1..Len(doc.reviews) : doc.reviews[i].id = rid
    THEN CHOOSE i \in 1..Len(doc.reviews) :
            /\ doc.reviews[i].id = rid
            /\ \A j \in 1..(i - 1) : doc.reviews[j].id # rid
    ELSE 0

RECURSIVE Pull(_, _)
Pull(reviews, rid) ==
    IF reviews = <<>> THEN <<>>
    ELSE IF Head(reviews).id = rid THEN Pull(Tail(reviews), rid)
    ELSE <<Head(reviews)>> \o Pull(Tail(reviews), rid)

\* The changes a handler made to the document it loaded
PushOp(r) == [kind |-> "push", review |-> r]
SetOp(i, rating, comment) == [kind |-> "set", idx |-> i, rating |-> rating, comment |-> comment]
PullOp(rid) == [kind |-> "pull", rid |-> rid]

\* The handler's in-memory document after its change
Local(loaded, op) ==
    CASE op.kind = "push" -> [loaded EXCEPT !.reviews = Append(@, op.review)]
      [] op.kind = "set" -> [loaded EXCEPT !.reviews[op.idx].rating = op.rating,
                                            !.reviews[op.idx].comment = op.comment]
      [] op.kind = "pull" -> [loaded EXCEPT !.reviews = Pull(@, op.rid)]
      [] OTHER -> loaded

\* the paths of the loaded document that the handler's assignments changed:
\* assigning a path the value it has marks nothing modified
Modifies(loaded, op) ==
    \/ op.kind \in {"push", "pull"}
    \/ /\ op.kind = "set"
       /\ \/ loaded.reviews[op.idx].rating # op.rating
          \/ loaded.reviews[op.idx].comment # op.comment

\* save() sends only the modified paths: $push / $pull / positional $set of
\* the review's rating and comment where they differ from the loaded ones,
\* and $set of a derived field whose value differs from the loaded one.  A
\* positional $set is guarded by the version the document was loaded at;
\* $push and $pull increment the version.
ApplyOp(cur, loaded, op) ==
    CASE op.kind = "push" -> [cur EXCEPT !.reviews = Append(@, op.review), !.v = @ + 1]
      [] op.kind = "set" /\ Modifies(loaded, op) ->
            [cur EXCEPT
                !.reviews[op.idx].rating =
                    IF loaded.reviews[op.idx].rating # op.rating THEN op.rating ELSE @,
                !.reviews[op.idx].comment =
                    IF loaded.reviews[op.idx].comment # op.comment THEN op.comment ELSE @]
      [] op.kind = "pull" -> [cur EXCEPT !.reviews = Pull(@, op.rid), !.v = @ + 1]
      [] OTHER -> cur

ApplyDerived(cur, loaded, saved) ==
    [cur EXCEPT
        !.averageRating = IF saved.averageRating # loaded.averageRating
                          THEN saved.averageRating ELSE @,
        !.totalReviews = IF saved.totalReviews # loaded.totalReviews
                         THEN saved.totalReviews ELSE @]

Saved(ok, error, coll) == [ok |-> ok, error |-> error, coll |-> coll]

\* book.save() of a document loaded from the collection
Save(coll, id, loaded, op) ==
    LET local == Local(loaded, op)
        saved == PreSave(local)
        stored == ApplyDerived(ApplyOp(coll[id], loaded, op), loaded, saved)
    IN  IF ~BookValid(local) THEN Saved(FALSE, "ValidationError", coll)
        ELSE IF op.kind = "set" /\ Modifies(loaded, op) /\ coll[id].v # loaded.v
        THEN Saved(FALSE, "VersionError", coll)
        ELSE IF DuplicateKey(coll, id, stored) THEN Saved(FALSE, "E11000", coll)
        ELSE Saved(TRUE, "", [coll EXCEPT ![id] = stored])

\* book.save() of a new document
Insert(coll, doc) ==
    IF ~BookValid(doc) THEN Saved(FALSE, "ValidationError", coll)
    ELSE IF DuplicateKey(coll, Len(coll) + 1, PreSave(doc)) THEN Saved(FALSE, "E11000", coll)
    ELSE Saved(TRUE, "", Append(coll, PreSave(doc)))

----------------------------------------------------------------------------
(* routes/book.routes.js: validation chains (express-validator) *)

\* validateBook: body(f).trim().notEmpty() for title, author, genre, description
validateBookErrors(body) ==
    \/ Trim(body.title) = <<>>
    \/ Trim(body.author) = <<>>
    \/ Trim(body.genre) = <<>>
    \/ Trim(body.description) = <<>>

\* validateReview: body('rating').isInt({min: 1, max: 5}), body('comment').trim().notEmpty()
validateReviewErrors(body) ==
    \/ body.rating < MinRating
    \/ body.rating > MaxRating
    \/ Trim(body.comment) = <<>>

----------------------------------------------------------------------------
(* controllers/book.controller.js.  A handler is given in the parts its
   awaits cut it into: ...Read is what it does before it awaits findById
   (an answer, or "next"), ...Write what it does with the document findById
   gave it, through its save.  The handler's name is the two run with no
   other handler's step in between. *)

Out(status, message, coll, nid) ==
    [status |-> status, message |-> message, coll |-> coll, nid |-> nid]

\* Casting of req.body.reviews by new Book(req.body): each element becomes a
\* review subdocument with a fresh _id
RECURSIVE CastReviews(_, _)
CastReviews(rs, nid) ==
    IF rs = <<>> THEN <<>>
    ELSE <<Review(nid, Head(rs).user, Head(rs).rating, Trim(Head(rs).comment))>>
         \o CastReviews(Tail(rs), nid + 1)

\* new Book(req.body), req.body as the validation chain's trim() left it
NewBook(body, nid, now) ==
    [title |-> Trim(body.title), author |-> Trim(body.author),
     genre |-> Trim(body.genre), description |-> Trim(body.description),
     reviews |-> CastReviews(body.reviews, nid),
     averageRating |-> Number(body.averageRating),
     totalReviews |-> body.totalReviews,
     v |-> 0, createdAt |-> now]

createBook(body, coll, nid) ==
    IF validateBookErrors(body) THEN Out(400, "errors", coll, nid)
    ELSE LET s == Insert(coll, NewBook(body, nid, Len(coll) + 1))
         IN  IF s.ok THEN Out(201, "", s.coll, nid + Len(body.reviews))
             ELSE Out(500, "Error creating book", coll, nid)

getBookByIdRead(req, coll, nid) ==
    IF req.params.id = NoId THEN Out(400, "Book ID is required", coll, nid)
    ELSE Out(0, "next", coll, nid)

getBookByIdWrite(req, loaded, coll, nid) ==
    IF loaded = NoBook THEN Out(404, "Book not found", coll, nid)
    ELSE Out(200, "", coll, nid)

getBookById(req, coll, nid) ==
    IF getBookByIdRead(req, coll, nid).status # 0 THEN getBookByIdRead(req, coll, nid)
    ELSE getBookByIdWrite(req, findById(coll, req.params.id), coll, nid)

addReviewRead(req, coll, nid) ==
    IF validateReviewErrors(req.body) THEN Out(400, "errors", coll, nid)
    ELSE IF req.params.id = NoId THEN Out(400, "Book ID is required", coll, nid)
    ELSE Out(0, "next", coll, nid)

addReviewWrite(req, loaded, coll, nid) ==
    IF loaded = NoBook THEN Out(404, "Book not found", coll, nid)
    ELSE IF HasReviewBy(loaded, req.user)
    THEN Out(400, "You have already reviewed this book", coll, nid)
    ELSE LET r == Review(nid, req.user, req.body.rating, Trim(req.body.comment))
             s == Save(coll, req.params.id, loaded, PushOp(r))
         IN  IF s.ok THEN Out(201, "Review added successfully", s.coll, nid + 1)
             ELSE Out(500, "Error adding review", coll, nid)

addReview(req, coll, nid) ==
    IF addReviewRead(req, coll, nid).status # 0 THEN addReviewRead(req, coll, nid)
    ELSE addReviewWrite(req, findById(coll, req.params.id), coll, nid)

updateReviewRead(req, coll, nid) ==
    IF validateReviewErrors(req.body) THEN Out(400, "errors", coll, nid)
    ELSE IF req.params.id = NoId THEN Out(400, "Book ID is required", coll, nid)
    ELSE Out(0, "next", coll, nid)

updateReviewWriteAppend(req, loaded, coll, nid) ==
    IF loaded = NoBook THEN Out(404, "Book not found", coll, nid)
    ELSE LET r == Review(nid, req.user, req.body.rating, Trim(req.body.comment))
             s == Save(coll, req.params.id, loaded, PushOp(r))
         IN  IF s.ok THEN Out(200, "Review added successfully", s.coll, nid + 1)
             ELSE Out(500, "Error updating review", coll, nid)

updateReviewWrite(req, loaded, coll, nid) ==
    IF loaded = NoBook THEN Out(404, "Book not found", coll, nid)
    ELSE IF HasReviewBy(loaded, req.user)
    THEN LET s == Save(coll, req.params.id, loaded,
                       SetOp(FindIndexByUser(loaded, req.user),
                             req.body.rating, Trim(req.body.comment)))
         IN  IF s.ok THEN Out(200, "Review updated successfully", s.coll, nid)
             ELSE Out(500, "Error updating review", coll, nid)
    ELSE LET r == Review(nid, req.user, req.body.rating, Trim(req.body.comment))
             s == Save(coll, req.params.id, loaded, PushOp(r))
         IN  IF s.ok THEN Out(200, "Review added successfully", s.coll, nid + 1)
             ELSE Out(500, "Error updating review", coll, nid)

updateReview(req, coll, nid) ==
    IF updateReviewRead(req, coll, nid).status # 0 THEN updateReviewRead(req, coll, nid)
    ELSE updateReviewWrite(req, findById(coll, req.params.id), coll, nid)

deleteReviewRead(req, coll, nid) ==
    IF req.params.id = NoId THEN Out(404, "BookId not found", coll, nid)
    ELSE Out(0, "next", coll, nid)

deleteReviewWriteAnyUser(req, loaded, coll, nid) ==
    IF loaded = NoBook THEN Out(404, "Book not found", coll, nid)
    ELSE LET i == FindIndexById(loaded, req.params.reviewId)
         IN  IF i = 0 THEN Out(404, "Review not found", coll, nid)
             ELSE LET s == Save(coll, req.params.id, loaded, PullOp(loaded.reviews[i].id))
                  IN  IF s.ok THEN Out(200, "", s.coll, nid)
                      ELSE Out(500, "Error deleting review", coll, nid)

deleteReviewWrite(req, loaded, coll, nid) ==
    IF loaded = NoBook THEN Out(404, "Book not found", coll, nid)
    ELSE LET i == FindIndexById(loaded, req.params.reviewId)
         IN  IF i = 0 THEN Out(404, "Review not found", coll, nid)
             ELSE IF loaded.reviews[i].user # req.user
             THEN Out(403, "Not authorized to delete this review", coll, nid)
             ELSE LET s == Save(coll, req.params.id, loaded, PullOp(loaded.reviews[i].id))
                  IN  IF s.ok THEN Out(200, "", s.coll, nid)
                      ELSE Out(500, "Error deleting review", coll, nid)

deleteReview(req, coll, nid) ==
    IF deleteReviewRead(req, coll, nid).status # 0 THEN deleteReviewRead(req, coll, nid)
    ELSE deleteReviewWrite(req, findById(coll, req.params.id), coll, nid)

----------------------------------------------------------------------------
(* getAllBooks *)

Digits == <<"0", "1", "2", "3", "4", "5", "6", "7", "8", "9">>
IsDigit(c) == \E d \in 1..10 : Digits[d] = c
DigitValue(c) == (CHOOSE d \in 1..10 : Digits[d] = c) - 1

\* the value of the longest prefix of digits of s, from acc
RECURSIVE ParseDigits(_, _)
ParseDigits(s, acc) ==
    IF s = <<>> \/ ~IsDigit(Head(s)) THEN acc
    ELSE ParseDigits(Tail(s), acc * 10 + DigitValue(Head(s)))

HexDigits ==
    <<"0", "1", "2", "3", "4", "5", "6", "7", "8", "9", "a", "b", "c", "d", "e", "f">>
IsHexDigit(c) == \E d \in 1..16 : HexDigits[d] = LowerChar(c)
HexValue(c) == (CHOOSE d \in 1..16 : HexDigits[d] = LowerChar(c)) - 1

\* the value of the longest prefix of hexadecimal digits of s, from acc
RECURSIVE ParseHex(_, _)
ParseHex(s, acc) ==
    IF s = <<>> \/ ~IsHexDigit(Head(s)) THEN acc
    ELSE ParseHex(Tail(s), acc * 16 + HexValue(Head(s)))

NotANumber == [nan |-> TRUE, value |-> 0]

\* parseInt(s) without a radix; a missing query parameter is the empty text.
\* After the sign, a prefix 0x or 0X makes the radix 16.
parseInt(s) ==
    LET t == TrimLeft(s)
        neg == t # <<>> /\ Head(t) = "-"
        u == IF t # <<>> /\ Head(t) \in {"-", "+"} THEN Tail(t) ELSE t
        hex == Len(u) >= 2 /\ u[1] = "0" /\ u[2] \in {"x", "X"}
        z == IF hex THEN SubSeq(u, 3, Len(u)) ELSE u
        magnitude == IF hex THEN ParseHex(z, 0) ELSE ParseDigits(z, 0)
    IN  IF z = <<>> THEN NotANumber
        ELSE IF hex /\ ~IsHexDigit(Head(z)) THEN NotANumber
        ELSE IF ~hex /\ ~IsDigit(Head(z)) THEN NotANumber
        ELSE [nan |-> FALSE, value |-> IF neg THEN 0 - magnitude ELSE magnitude]

\* n || d
OrDefault(n, d) == IF n.nan \/ n.value = 0 THEN d ELSE n.value

\* the query object: author and genre filter only when the parameter is a
\* non-empty string
Matches(query, doc) ==
    /\ query.author # <<>> => RegExpTestI(query.author, doc.author)
    /\ query.genre # <<>> => RegExpTestI(query.genre, doc.genre)

RECURSIVE Filter(_, _)
Filter(coll, query) ==
    IF coll = <<>> THEN <<>>
    ELSE IF Matches(query, Head(coll)) THEN <<Head(coll)>> \o Filter(Tail(coll), query)
    ELSE Filter(Tail(coll), query)

\* .sort({ createdAt: -1 })
RECURSIVE InsertDesc(_, _)
InsertDesc(doc, sorted) ==
    IF sorted = <<>> THEN <<doc>>
    ELSE IF doc.createdAt >= Head(sorted).createdAt THEN <<doc>> \o sorted
    ELSE <<Head(sorted)>> \o InsertDesc(doc, Tail(sorted))

RECURSIVE SortDesc(_)
SortDesc(docs) ==
    IF docs = <<>> THEN <<>> ELSE InsertDesc(Head(docs), SortDesc(Tail(docs)))

\* .skip(n) and .limit(n) of a query, n >= 0
Skip(docs, n) == IF n >= Len(docs) THEN <<>> ELSE SubSeq(docs, n + 1, Len(docs))
Limit(docs, n) == IF n >= Len(docs) THEN docs ELSE SubSeq(docs, 1, n)

\* Math.ceil(a / b), a >= 0, b > 0
CeilDiv(a, b) == (a + b - 1) \div b

\* getAllBooks through its await of Book.find: the page of books, or the
\* error of a filter that new RegExp refuses or of a negative skip or limit,
\* which the database refuses
getAllBooksFind(query, coll) ==
    LET page == OrDefault(parseInt(query.page), DefaultPage)
        limit == OrDefault(parseInt(query.limit), DefaultLimit)
        skip == (page - 1) * limit
    IN  IF \/ query.author # <<>> /\ RegExpThrows(query.author)
           \/ query.genre # <<>> /\ RegExpThrows(query.genre)
           \/ skip < 0
           \/ limit < 0
        THEN [error |-> TRUE, books |-> <<>>]
        ELSE [error |-> FALSE,
              books |-> Limit(Skip(SortDesc(Filter(coll, query)), skip), limit)]

\* getAllBooks from its await of Book.countDocuments on: the response
getAllBooksCount(query, found, coll) ==
    LET page == OrDefault(parseInt(query.page), DefaultPage)
        limit == OrDefault(parseInt(query.limit), DefaultLimit)
        total == Len(Filter(coll, query))
    IN  [status |-> 200, message |-> "", books |-> found, currentPage |-> page,
         totalPages |-> CeilDiv(total, limit), totalBooks |-> total]

getAllBooksError == [status |-> 500, message |-> "Error fetching books"]

\* the two queries run on one state of the collection
getAllBooks(query, coll) ==
    IF getAllBooksFind(query, coll).error THEN getAllBooksError
    ELSE getAllBooksCount(query, getAllBooksFind(query, coll).books, coll)

----------------------------------------------------------------------------
(* Requests *)

EmptyBody == [rating |-> 0, comment |-> <<>>]
NoReq == [params |-> [id |-> NoId, reviewId |-> NoId], user |-> "", body |-> EmptyBody]

\* rating below, at and above the limits of validateReview; comments that
\* trim() changes or empties
ReviewBodies ==
    { [rating |-> MinRating - 1, comment |-> <<"a">>],
      [rating |-> MaxRating + 1, comment |-> <<"a">>],
      [rating |-> MinRating + 1, comment |-> <<" ">>],
      [rating |-> MinRating + 1, comment |-> <<"a">>],
      [rating |-> MaxRating, comment |-> <<" ", "b">>] }

\* requests to addReview and updateReview
ReviewReqs ==
    [params : [id : BookIds \cup {NoId}, reviewId : {NoId}], user : Users, body : ReviewBodies]

\* requests to deleteReview
DeleteReqs ==
    [params : [id : BookIds \cup {NoId}, reviewId : ReviewIds \cup {NoId}],
     user : Users, body : {EmptyBody}]

BookBody(title, author, genre, reviews, averageRating, totalReviews) ==
    [title |-> title, author |-> author, genre |-> genre, description |-> <<"d">>,
     reviews |-> reviews, averageRating |-> averageRating, totalReviews |-> totalReviews]

\* bodies of POST /books: the four text fields alone, and with the fields of
\* the schema that the validation chain does not look at
BookBodies ==
    { BookBody(<<"t">>, <<"a">>, <<"g">>, <<>>, 0, 0),
      BookBody(<<" ">>, <<"a">>, <<"g">>, <<>>, 0, 0),
      BookBody(<<"t">>, <<"a">>, <<"g">>, <<>>, 3, 9),
      BookBody(<<"t">>, <<"a">>, <<"g">>, <<>>, 7, 0),
      BookBody(<<"t">>, <<"a">>, <<"g">>,
               <<[user |-> "u2", rating |-> 2, comment |-> <<"a">>],
                 [user |-> "u2", rating |-> 5, comment |-> <<" ", "b">>]>>, 0, 0),
      BookBody(<<"t">>, <<"a">>, <<"g">>,
               <<[user |-> "u1", rating |-> 9, comment |-> <<"a">>]>>, 0, 0) }

----------------------------------------------------------------------------
(* Handlers in flight.  A handler runs without interruption from one await
   to the next, and other handlers' steps may run at each await.  A step is
   one operation of the database with the handler's code up to it:
     - findById, after which the handler holds the document it loaded;
     - save (or the answer the handler gives instead of saving), after
       which the response is decided;
     - the response, sent after the handler's last await (populate). *)

Idle == [phase |-> "idle"]

\* the handler has the document findById gave it and has not saved yet
Loaded(handler, req, loaded) ==
    [phase |-> "loaded", handler |-> handler, req |-> req, loaded |-> loaded]

\* the handler's database work is done and its response is not out yet;
\* changed: whether the handler's step changed the collection
Answering(handler, req, status, message, changed) ==
    [phase |-> "answering", handler |-> handler, req |-> req,
     status |-> status, message |-> message, changed |-> changed]

ReadOf(handler, req, coll, nid) ==
    CASE handler = "getBookById" -> getBookByIdRead(req, coll, nid)
      [] handler = "addReview" -> addReviewRead(req, coll, nid)
      [] handler = "updateReview" -> updateReviewRead(req, coll, nid)
      [] OTHER -> deleteReviewRead(req, coll, nid)

WriteOf(handler, req, loaded, coll, nid) ==
    CASE handler = "getBookById" -> getBookByIdWrite(req, loaded, coll, nid)
      [] handler = "addReview" -> addReviewWrite(req, loaded, coll, nid)
      [] handler = "updateReview" -> updateReviewWrite(req, loaded, coll, nid)
      [] OTHER -> deleteReviewWrite(req, loaded, coll, nid)

Quiet == \A s \in 1..MaxInflight : inflight[s] = Idle

FirstIdle(s) == inflight[s] = Idle /\ \A t \in 1..(s - 1) : inflight[t] # Idle

\* the handler in this slot will push a review, which takes a fresh _id
Pushes(c) ==
    /\ c.phase = "loaded"
    /\ c.handler \in {"addReview", "updateReview"}
    /\ c.loaded # NoBook
    /\ ~HasReviewBy(c.loaded, c.req.user)

PendingIds == Cardinality({s \in 1..MaxInflight : Pushes(inflight[s])})

\* a review handler starts in slot s: it answers before any await, or
\* findById runs and the handler holds what it gave
Arrive(s, handler, req) ==
    LET early == ReadOf(handler, req, books, nextId)
        c == IF early.status # 0
             THEN Answering(handler, req, early.status, early.message, FALSE)
             ELSE Loaded(handler, req, findById(books, req.params.id))
    IN  /\ inflight[s] = Idle
        /\ Pushes(c) => nextId + PendingIds <= MaxReviewIds
        /\ inflight' = [inflight EXCEPT ![s] = c]
        /\ UNCHANGED <<books, nextId, indexBuilt>>

\* the handler in slot s goes on with the document it holds: it answers, or
\* its save runs on the collection as it is now
Act(s) ==
    /\ inflight[s].phase = "loaded"
    /\ LET c == inflight[s]
           out == WriteOf(c.handler, c.req, c.loaded, books, nextId)
       IN  /\ books' = out.coll
           /\ nextId' = out.nid
           /\ inflight' = [inflight EXCEPT ![s] =
                  Answering(c.handler, c.req, out.status, out.message, out.coll # books)]
    /\ UNCHANGED indexBuilt

\* the handler in slot s sends its response
Respond(s) ==
    /\ inflight[s].phase = "answering"
    /\ inflight' = [inflight EXCEPT ![s] = Idle]
    /\ UNCHANGED <<books, nextId, indexBuilt>>

\* createBook starts in slot s: it answers 400, or its save runs
Create(s, body, max) ==
    LET out == createBook(body, books, nextId)
    IN  /\ inflight[s] = Idle
        /\ Len(out.coll) <= max
        /\ out.nid + PendingIds <= MaxReviewIds + 1
        /\ books' = out.coll
        /\ nextId' = out.nid
        /\ inflight' = [inflight EXCEPT ![s] =
               Answering("createBook", NoReq, out.status, out.message, out.coll # books)]
        /\ UNCHANGED indexBuilt

Continue == \E s \in 1..MaxInflight : Act(s)

Answer == \E s \in 1..MaxInflight : Respond(s)

Init ==
    /\ books = <<>>
    /\ nextId = 1
    /\ indexBuilt \in BOOLEAN
    /\ inflight = [s \in 1..MaxInflight |-> Idle]

----------------------------------------------------------------------------
(* Requests executed one at a time: a request is sent when the response to
   the one before it is out *)

CreateBook == Quiet /\ \E body \in BookBodies : Create(1, body, MaxBooks)

AddReview == Quiet /\ \E req \in ReviewReqs : Arrive(1, "addReview", req)

UpdateReview == Quiet /\ \E req \in ReviewReqs : Arrive(1, "updateReview", req)

DeleteReview == Quiet /\ \E req \in DeleteReqs : Arrive(1, "deleteReview", req)

Next == CreateBook \/ AddReview \/ UpdateReview \/ DeleteReview \/ Continue \/ Answer

Spec == Init /\ [][Next]_vars

----------------------------------------------------------------------------
(* Requests sent without waiting for each other: the review handlers
   interleaved at their awaits, on the books that a plain createBook made *)

\* the requests of the interleaved handlers: valid bodies, for the books
\* that can exist
RequestsOf(handler) ==
    {req \in (IF handler = "deleteReview" THEN DeleteReqs ELSE ReviewReqs) :
        /\ req.params.id \in 1..MaxConcBooks
        /\ handler # "deleteReview" => ~validateReviewErrors(req.body)
        /\ handler = "deleteReview" => req.params.reviewId # NoId}

Begin(s) ==
    /\ FirstIdle(s)
    /\ \E handler \in {"addReview", "updateReview", "deleteReview"} :
        \E req \in RequestsOf(handler) : Arrive(s, handler, req)

ConcCreateBook ==
    /\ Len(books) < MaxConcBooks
    /\ \E s \in 1..MaxInflight :
        FirstIdle(s) /\ Create(s, BookBody(<<"t">>, <<"a">>, <<"g">>, <<>>, 0, 0), MaxBooks)

ConcNext ==
    \/ ConcCreateBook
    \/ \E s \in 1..MaxInflight : Begin(s)
    \/ Continue
    \/ Answer

\* with a single book a unique index across documents rejects no write
ConcInit == Init /\ ~indexBuilt

ConcSpec == ConcInit /\ [][ConcNext]_vars

----------------------------------------------------------------------------
(* Listing: up to MaxListBooks books, created from bodies that differ in
   author and genre, and GET /books with its query parameters.  getAllBooks
   awaits two queries, Book.find and Book.countDocuments, and a createBook
   may save between them. *)

ListBodies ==
    << BookBody(<<"t">>, <<" ", "a", "b">>, <<"g">>, <<>>, 0, 0),
       BookBody(<<"t">>, <<"B">>, <<"G", "h">>, <<>>, 0, 0),
       BookBody(<<"t">>, <<"C", "+", "+">>, <<"h">>, <<>>, 0, 0) >>

\* the bodies of the POST /books that would create the n-th book: one of
\* ListBodies in turn, or a body without author, which validateBook refuses
ListBookBodies(n) ==
    { ListBodies[((n - 1) % Len(ListBodies)) + 1],
      BookBody(<<"t">>, <<>>, <<"g">>, <<>>, 0, 0) }

\* page and limit: missing, zero, decimal, negative, hexadecimal, with a
\* tail that is no digit
PageInputs == {<<>>, <<"0">>, <<"2">>, <<"3">>, <<"-", "1">>, <<"0", "x", "2">>}
LimitInputs == {<<>>, <<"0">>, <<"1">>, <<"2", "x">>, <<"0", "X", "a">>}
\* filters: letters, and the characters that new RegExp gives a meaning
AuthorInputs ==
    {<<>>, <<"A">>, <<"a", "b">>, <<".">>, <<"(">>, <<"c", "+">>, <<"C", "+", "+">>}
GenreInputs == {<<>>, <<"H">>}

\* every page and limit without filter, every filter at the first and
\* second page of the default limit
Queries ==
    [page : PageInputs, limit : LimitInputs, author : {<<>>}, genre : {<<>>}]
    \cup [page : {<<>>, <<"2">>}, limit : {<<>>}, author : AuthorInputs, genre : GenreInputs]

\* getAllBooks holds the page Book.find gave it; foundIn is the collection
\* the page was read from
Found(query, found, foundIn) ==
    [phase |-> "found", handler |-> "getAllBooks", req |-> query,
     found |-> found, foundIn |-> foundIn]

\* getAllBooks has its response; countedIn is the collection that
\* countDocuments counted
Listing(query, response, foundIn, countedIn) ==
    [phase |-> "answering", handler |-> "getAllBooks", req |-> query,
     status |-> response.status, message |-> response.message, changed |-> FALSE,
     response |-> response, foundIn |-> foundIn, countedIn |-> countedIn]

ListCreateBook ==
    \E s \in 1..MaxInflight : FirstIdle(s) /\ \E body \in ListBookBodies(Len(books) + 1) :
        Create(s, body, MaxListBooks)

\* getAllBooks starts in slot s: Book.find runs, and the handler holds its
\* page or answers 500
List(s, query) ==
    /\ inflight[s] = Idle
    /\ inflight' = [inflight EXCEPT ![s] =
           IF getAllBooksFind(query, books).error
           THEN Answering("getAllBooks", query, getAllBooksError.status,
                          getAllBooksError.message, FALSE)
           ELSE Found(query, getAllBooksFind(query, books).books, books)]
    /\ UNCHANGED <<books, nextId, indexBuilt>>

\* one getAllBooks at a time: a query changes nothing another one reads
Find(s) ==
    /\ FirstIdle(s)
    /\ \A t \in 1..MaxInflight :
          ~(inflight[t].phase # "idle" /\ inflight[t].handler = "getAllBooks")
    /\ \E query \in Queries : List(s, query)

Count(s) ==
    /\ inflight[s].phase = "found"
    /\ inflight' = [inflight EXCEPT ![s] =
           Listing(@.req, getAllBooksCount(@.req, @.found, books), @.foundIn, books)]
    /\ UNCHANGED <<books, nextId, indexBuilt>>

ListNext ==
    \/ ListCreateBook
    \/ \E s \in 1..MaxInflight : Find(s)
    \/ \E s \in 1..MaxInflight : Count(s)
    \/ Answer

ListSpec == Init /\ [][ListNext]_vars

----------------------------------------------------------------------------
(* routes/book.routes.js: the router mounted at /books.  A path is the
   sequence of its segments after /books; a segment of a route that starts
   with ":" is a parameter. *)

Route(method, pattern, handler, auth) ==
    [method |-> method, pattern |-> pattern, handler |-> handler, auth |-> auth]

Routes ==
    << Route("POST", <<>>, "createBook", TRUE),
       Route("GET", <<>>, "getAllBooks", FALSE),
       Route("GET", <<"search">>, "searchBooks", FALSE),
       Route("GET", <<":id">>, "getBookById", FALSE),
       Route("POST", <<":id", "reviews">>, "addReview", TRUE),
       Route("PUT", <<"reviews", "bookId">>, "updateReview", TRUE),
       Route("DELETE", <<":id">>, "deleteReview", TRUE) >>

IsParam(seg) == seg \in {":id", ":reviewId"}

MatchesRoute(route, method, path) ==
    /\ route.method = method
    /\ Len(route.pattern) = Len(path)
    /\ \A i \in 1..Len(path) : IsParam(route.pattern[i]) \/ route.pattern[i] = path[i]

\* the text of an _id, and the _id a path segment casts to (0: CastError)
IdText == <<"1", "2", "3", "4", "5">>
CastId(seg) ==
    IF \E i \in 1..Len(IdText) : IdText[i] = seg
    THEN CHOOSE i \in 1..Len(IdText) : IdText[i] = seg
    ELSE 0

\* req.params[name]: the segment the route binds to :name, or undefined
Param(route, path, name) ==
    IF \E i \in 1..Len(path) : route.pattern[i] = name
    THEN path[CHOOSE i \in 1..Len(path) : route.pattern[i] = name]
    ELSE ""

NoRoute == Route("", <<>>, "", FALSE)

\* the first route of the router that matches
Dispatch(method, path) ==
    IF \E i \in 1..Len(Routes) : MatchesRoute(Routes[i], method, path)
    THEN Routes[CHOOSE i \in 1..Len(Routes) :
                    /\ MatchesRoute(Routes[i], method, path)
                    /\ \A j \in 1..(i - 1) : ~MatchesRoute(Routes[j], method, path)]
    ELSE NoRoute

AsBookBody(body) ==
    IF "title" \in DOMAIN body THEN body
    ELSE BookBody(<<>>, <<>>, <<>>, <<>>, 0, 0)

AsReviewBody(body) ==
    IF "rating" \in DOMAIN body THEN body ELSE EmptyBody

\* the request the handler of a route sees
HandlerReq(route, http) ==
    [params |-> [id |-> CastId(Param(route, http.path, ":id")),
                 reviewId |-> CastId(Param(route, http.path, ":reviewId"))],
     user |-> http.user,
     body |-> AsReviewBody(http.body)]

\* a parameter that is present and is no ObjectId: findById throws CastError,
\* which the handler's catch answers with 500
CastError(route, http) ==
    /\ Param(route, http.path, ":id") # ""
    /\ CastId(Param(route, http.path, ":id")) = 0

\* middleware/auth.js: the bearer credential resolves to a user, or the
\* request is answered 401
Authenticated(http) == http.user # ""

\* a request of the model has no query string: req.query is empty, so
\* getAllBooks lists with its defaults and searchBooks finds no query
NoQuery == [page |-> <<>>, limit |-> <<>>, author |-> <<>>, genre |-> <<>>]

\* what the application answers to a request under /books before the
\* handler reads or writes a book, or "next"
HttpRefusal(http, coll, nid) ==
    LET route == Dispatch(http.method, http.path)
    IN  IF route.handler = "" THEN Out(404, "Cannot " \o http.method, coll, nid)
        ELSE IF route.auth /\ ~Authenticated(http) THEN Out(401, "Please authenticate", coll, nid)
        ELSE IF /\ route.handler = "addReview"
                /\ ~validateReviewErrors(HandlerReq(route, http).body)
                /\ CastError(route, http)
        THEN Out(500, "Error adding review", coll, nid)
        ELSE IF route.handler = "deleteReview" /\ CastError(route, http)
        THEN Out(500, "Error deleting review", coll, nid)
        ELSE IF route.handler = "getBookById" /\ CastError(route, http)
        THEN Out(500, "Error fetching book", coll, nid)
        ELSE IF route.handler = "searchBooks"
        THEN Out(400, "Search query is required", coll, nid)
        ELSE Out(0, "next", coll, nid)

\* what the application answers to a request under /books that runs with no
\* other request's step in between
HttpOutcome(http, coll, nid) ==
    LET route == Dispatch(http.method, http.path)
        req == HandlerReq(route, http)
    IN  IF HttpRefusal(http, coll, nid).status # 0 THEN HttpRefusal(http, coll, nid)
        ELSE IF route.handler = "createBook" THEN createBook(AsBookBody(http.body), coll, nid)
        ELSE IF route.handler = "addReview" THEN addReview(req, coll, nid)
        ELSE IF route.handler = "updateReview" THEN updateReview(req, coll, nid)
        ELSE IF route.handler = "deleteReview" THEN deleteReview(req, coll, nid)
        ELSE IF route.handler = "getBookById" THEN getBookById(req, coll, nid)
        ELSE Out(getAllBooks(NoQuery, coll).status, getAllBooks(NoQuery, coll).message,
                 coll, nid)

Methods == {"GET", "POST", "PUT", "DELETE"}

Paths ==
    {<<>>, <<"search">>, <<"reviews">>, <<"reviews", "bookId">>}
    \cup {<<IdText[b]>> : b \in BookIds}
    \cup {<<IdText[b], "reviews">> : b \in BookIds}
    \cup {<<IdText[b], "reviews", IdText[r]>> : b \in BookIds, r \in ReviewIds}
    \cup {<<"reviews", "reviews">>}

HttpBodies ==
    { BookBody(<<"t">>, <<"a">>, <<"g">>, <<>>, 0, 0),
      [rating |-> MaxRating, comment |-> <<" ", "b">>],
      [rating |-> MaxRating + 1, comment |-> <<"a">>] }

\* a GET is sent without a token and without a body of its own: no GET
\* route authenticates or reads req.body
HttpRequests ==
    { http \in [method : Methods, path : Paths, user : Users \cup {""},
                body : HttpBodies] :
        http.method = "GET" =>
            http.user = "" /\ http.body = [rating |-> MaxRating + 1, comment |-> <<"a">>] }

RouteName(http) == Dispatch(http.method, http.path).handler

\* a request under /books arrives: the router answers it, or its handler
\* starts in slot s
Http(s) ==
    /\ FirstIdle(s)
    /\ \E http \in HttpRequests :
        LET refusal == HttpRefusal(http, books, nextId)
        IN  IF refusal.status # 0
            THEN /\ inflight' = [inflight EXCEPT ![s] =
                        Answering(RouteName(http), NoReq, refusal.status,
                                  refusal.message, FALSE)]
                 /\ UNCHANGED <<books, nextId, indexBuilt>>
            ELSE IF RouteName(http) = "createBook"
            THEN Create(s, AsBookBody(http.body), MaxBooks)
            ELSE IF RouteName(http) = "getAllBooks"
            THEN List(s, NoQuery)
            ELSE Arrive(s, RouteName(http),
                        HandlerReq(Dispatch(http.method, http.path), http))

RouteNext ==
    \/ \E s \in 1..MaxInflight : Http(s)
    \/ \E s \in 1..MaxInflight : Count(s)
    \/ Continue
    \/ Answer

RouteSpec == Init /\ [][RouteNext]_vars

----------------------------------------------------------------------------
(* Properties *)

Exists(id) == id \in 1..Len(books)

OnePerUser(doc) ==
    \A i, j \in 1..Len(doc.reviews) : i # j => doc.reviews[i].user # doc.reviews[j].user

SameReviewsAndRating(d, e) ==
    /\ d.reviews = e.reviews
    /\ d.averageRating = e.averageRating
    /\ d.totalReviews = e.totalReviews

\* the valid requests to addReview and updateReview that name a book
ValidReviewReqs ==
    {req \in ReviewReqs : ~validateReviewErrors(req.body) /\ req.params.id # NoId}

\* C1: with requests executed one at a time, every persisted book has
\* totalReviews equal to the number of its reviews and averageRating equal to
\* the sum of their ratings divided by their number, and both 0 when it has
\* no review.
C1_DerivedFieldsConsistent ==
    \A b \in 1..Len(books) :
        LET d == books[b]
            n == Len(d.reviews)
        IN  /\ d.totalReviews = n
            /\ n = 0 => d.averageRating = Zero
            /\ n > 0 => /\ d.averageRating.den > 0
                        /\ d.averageRating.num * n = SumRatings(d.reviews) * d.averageRating.den

\* a review handler has saved, and a book has the reviews of two users whose
\* mean is no integer
C1_Witness ==
    /\ \E s \in 1..MaxInflight :
          /\ inflight[s].phase = "answering"
          /\ inflight[s].handler \in {"addReview", "updateReview", "deleteReview"}
          /\ inflight[s].changed
    /\ \E b \in 1..Len(books) :
          /\ Len(books[b].reviews) = 2
          /\ books[b].reviews[1].user # books[b].reviews[2].user
          /\ books[b].averageRating.den = 2

\* C2: with requests executed one at a time, every persisted book holds at
\* most one review per user, and addReview by a user who already has a review
\* on the book answers 400 "You have already reviewed this book" and changes
\* nothing.
C2_OneReviewPerUser ==
    /\ \A b \in 1..Len(books) : OnePerUser(books[b])
    /\ \A req \in ValidReviewReqs :
        (Exists(req.params.id) /\ HasReviewBy(books[req.params.id], req.user))
        => LET out == addReview(req, books, nextId)
           IN  /\ out.status = 400
               /\ out.message = "You have already reviewed this book"
               /\ out.coll = books

\* C3: a createBook that answers 201 persists a new book without reviews,
\* with averageRating 0 and totalReviews 0, whatever its body carries.
C3_CreatedBookIsEmpty ==
    [][Len(books') = Len(books) + 1
       => /\ books'[Len(books')].reviews = <<>>
          /\ books'[Len(books')].averageRating = Zero
          /\ books'[Len(books')].totalReviews = 0]_vars

\* a review of the document and a request to delete it by another user
ByOther(doc, req) ==
    /\ FindIndexById(doc, req.params.reviewId) # 0
    /\ doc.reviews[FindIndexById(doc, req.params.reviewId)].user # req.user

\* C4: deleteReview of an existing review of an existing book by a user who
\* is not its author answers 403 and changes nothing, whether it finds the
\* review in the collection as it is or in a document it loaded earlier.
C4_DeleteByOtherForbidden ==
    /\ \A req \in DeleteReqs :
          (Exists(req.params.id) /\ ByOther(books[req.params.id], req))
          => LET out == deleteReview(req, books, nextId)
             IN  out.status = 403 /\ out.coll = books
    /\ \A s \in 1..MaxInflight :
          (/\ inflight[s].phase = "loaded"
           /\ inflight[s].handler = "deleteReview"
           /\ inflight[s].loaded # NoBook
           /\ ByOther(inflight[s].loaded, inflight[s].req))
          => LET out == WriteOf("deleteReview", inflight[s].req, inflight[s].loaded,
                                books, nextId)
             IN  out.status = 403 /\ out.coll = books

\* deleteReview is answering 403, and the review is in the book
C4_Witness ==
    \E s \in 1..MaxInflight :
        /\ inflight[s].phase = "answering"
        /\ inflight[s].handler = "deleteReview"
        /\ inflight[s].status = 403
        /\ Exists(inflight[s].req.params.id)
        /\ ByOther(books[inflight[s].req.params.id], inflight[s].req)

\* C5: when a successful addReview by a user without a review on the book is
\* followed at once by a successful deleteReview of the added review by the
\* same user, the book's reviews, averageRating and totalReviews are what they
\* were before the add.
C5_AddThenDeleteRestores ==
    \A req \in ValidReviewReqs :
        (Exists(req.params.id) /\ ~HasReviewBy(books[req.params.id], req.user))
        => LET add == addReview(req, books, nextId)
               del == deleteReview([params |-> [id |-> req.params.id, reviewId |-> nextId],
                                    user |-> req.user, body |-> EmptyBody],
                                   add.coll, add.nid)
           IN  (add.status = 201 /\ del.status = 200)
               => SameReviewsAndRating(del.coll[req.params.id], books[req.params.id])

\* C6: updateReview given the same request twice in a row leaves every
\* persisted book as updateReview given it once does, whether the user had a
\* review or the first call created it.
C6_UpdateIdempotent ==
    \A req \in ValidReviewReqs :
        Exists(req.params.id)
        => LET once == updateReview(req, books, nextId)
               twice == updateReview(req, once.coll, once.nid)
           IN  twice.status = once.status /\ twice.coll = once.coll

\* an updateReview that found the user's review with the rating and comment
\* of its request is answering 200
C6_Witness ==
    \E s \in 1..MaxInflight :
        /\ inflight[s].phase = "answering"
        /\ inflight[s].handler = "updateReview"
        /\ inflight[s].status = 200
        /\ inflight[s].message = "Review updated successfully"
        /\ ~inflight[s].changed

\* C7: PUT /books/:id/reviews/:reviewId by a user updates that user's review
\* on book id, and DELETE /books/:id/reviews/:reviewId by the review's
\* author removes the review: neither is answered 400 or 404.
C7_ReviewRoutesDispatch ==
    \A b \in 1..Len(books) : \A i \in 1..Len(books[b].reviews) :
        LET r == books[b].reviews[i]
            path == <<IdText[b], "reviews", IdText[r.id]>>
            body == [rating |-> MinRating + 1, comment |-> <<"a">>]
            put == HttpOutcome([method |-> "PUT", path |-> path, user |-> r.user,
                                body |-> body], books, nextId)
            del == HttpOutcome([method |-> "DELETE", path |-> path, user |-> r.user,
                                body |-> body], books, nextId)
        IN  /\ put.status = 200
            /\ put.coll[b].reviews[i] = [r EXCEPT !.rating = body.rating, !.comment = body.comment]
            /\ del.status \notin {400, 404}
            /\ del.status = 200 => del.coll[b].reviews = Pull(books[b].reviews, r.id)

PositiveDecimal(text) ==
    /\ text # <<>>
    /\ \A i \in 1..Len(text) : IsDigit(text[i])
    /\ ParseDigits(text, 0) >= 1

Range(seq) == {seq[i] : i \in 1..Len(seq)}

Reverse(seq) == [i \in 1..Len(seq) |-> seq[Len(seq) + 1 - i]]

Min(a, b) == IF a <= b THEN a ELSE b

\* case-insensitive partial match: the filter occurs in the text
PartialMatch(filter, text) ==
    \E i \in 0..(Len(text) - Len(filter)) :
        SubSeq(Lower(text), i + 1, i + Len(filter)) = Lower(filter)

\* the books of the collection that match the filter, newest first
Matching(query, coll) ==
    SelectSeq(Reverse(coll),
              LAMBDA d : /\ query.author # <<>> => PartialMatch(query.author, d.author)
                         /\ query.genre # <<>> => PartialMatch(query.genre, d.genre))

\* getAllBooks has answered in slot s a request with page >= 1 and
\* limit >= 1, given in decimal or missing
Listed(s) ==
    /\ inflight[s].phase = "answering"
    /\ inflight[s].handler = "getAllBooks"
    /\ inflight[s].req.page = <<>> \/ PositiveDecimal(inflight[s].req.page)
    /\ inflight[s].req.limit = <<>> \/ PositiveDecimal(inflight[s].req.limit)

\* the answer in slot s is the page and the totals of the matching books;
\* the page is of the books stored when Book.find ran and the totals are of
\* those stored when countDocuments ran
Paginated(s) ==
    LET query == inflight[s].req
        page == IF query.page = <<>> THEN 1 ELSE ParseDigits(query.page, 0)
        limit == IF query.limit = <<>> THEN 10 ELSE ParseDigits(query.limit, 0)
        listed == Matching(query, inflight[s].foundIn)
        total == Len(Matching(query, inflight[s].countedIn))
        first == (page - 1) * limit + 1
        last == Min(page * limit, Len(listed))
        response == inflight[s].response
    IN  /\ inflight[s].status = 200
        /\ response.totalBooks = total
        /\ response.totalPages * limit >= total
        /\ (response.totalPages - 1) * limit < total
        /\ response.currentPage = page
        /\ Len(response.books) = (IF last >= first THEN last - first + 1 ELSE 0)
        /\ \A k \in 1..Len(response.books) : response.books[k] = listed[first + k - 1]

\* C8: for every filter, page >= 1 and limit >= 1 (1 and 10 when missing)
\* getAllBooks answers totalBooks = the number of stored books whose author
\* and genre contain the filter, totalPages = ceil(totalBooks / limit),
\* currentPage = page, and the matching books at positions
\* (page-1)*limit+1 .. min(page*limit, totalBooks) of the
\* creation-time-descending order.
C8_ListPagination == \A s \in 1..MaxInflight : Listed(s) => Paginated(s)

OfLetters(text) == \A i \in 1..Len(text) : text[i] \in Range(LowerLetters) \cup Range(UpperLetters)

\* the same for the filters that are letters only, which new RegExp matches
\* as they are
ListPaginationOfLetters ==
    \A s \in 1..MaxInflight :
        Listed(s) /\ OfLetters(inflight[s].req.author) /\ OfLetters(inflight[s].req.genre)
        => Paginated(s)

\* the second page of fifteen books at the default limit: five books, two
\* pages, fifteen books in all
ListScenario ==
    \E s \in 1..MaxInflight :
        /\ Listed(s) /\ inflight[s].status = 200
        /\ inflight[s].req = [page |-> <<"2">>, limit |-> <<>>, author |-> <<>>, genre |-> <<>>]
        /\ Len(inflight[s].foundIn) = 15 /\ Len(inflight[s].countedIn) = 15
        /\ Len(inflight[s].response.books) = 5
        /\ inflight[s].response.totalPages = 2
        /\ inflight[s].response.totalBooks = 15

\* C9: a valid addReview for an existing book on which the user has no
\* review answers 201 and appends the review, however many reviews the user
\* has on other books.
C9_AddReviewSucceeds ==
    \A req \in ValidReviewReqs :
        (Exists(req.params.id) /\ ~HasReviewBy(books[req.params.id], req.user))
        => LET out == addReview(req, books, nextId)
           IN  /\ out.status = 201
               /\ Len(out.coll[req.params.id].reviews) = Len(books[req.params.id].reviews) + 1

\* C10: with addReview and updateReview handlers interleaved, no persisted
\* book ever holds two reviews by one user.
C10_NoDuplicateUnderInterleaving ==
    \A b \in 1..Len(books) : OnePerUser(books[b])

DerivedConsistent(d) ==
    /\ d.totalReviews = Len(d.reviews)
    /\ Len(d.reviews) = 0 => d.averageRating = Zero
    /\ Len(d.reviews) > 0 =>
          /\ d.averageRating.den > 0
          /\ d.averageRating.num * Len(d.reviews) = SumRatings(d.reviews) * d.averageRating.den

\* C11: with the review handlers of different users interleaved on one book,
\* every persisted state of the book has totalReviews equal to the number of
\* its reviews and averageRating equal to their mean.
C11_DerivedConsistentUnderInterleaving ==
    \A b \in 1..Len(books) : OnePerUser(books[b]) => DerivedConsistent(books[b])

\* what updateReview leaves of book d as book e: the user's review with the
\* request's rating and comment in place, or one review by the user appended
UpdateFrame(req, d, e) ==
    IF \E i \in 1..Len(d.reviews) : d.reviews[i].user = req.user
    THEN /\ Len(e.reviews) = Len(d.reviews)
         /\ \E i \in 1..Len(d.reviews) :
               /\ d.reviews[i].user = req.user
               /\ e.reviews[i] = [id |-> d.reviews[i].id, user |-> req.user,
                                  rating |-> req.body.rating,
                                  comment |-> Trim(req.body.comment)]
               /\ \A j \in 1..Len(d.reviews) : j # i => e.reviews[j] = d.reviews[j]
    ELSE /\ Len(e.reviews) = Len(d.reviews) + 1
         /\ SubSeq(e.reviews, 1, Len(d.reviews)) = d.reviews
         /\ e.reviews[Len(e.reviews)].user = req.user
         /\ e.reviews[Len(e.reviews)].rating = req.body.rating
         /\ e.reviews[Len(e.reviews)].comment = Trim(req.body.comment)

\* C12: a valid updateReview for an existing book changes only the rating and
\* comment of the user's review, or appends exactly one review by the user
\* when there is none, leaves every other review and book as it was, and
\* never answers DuplicateReview.
C12_UpdateUpsertFrame ==
    \A req \in ValidReviewReqs :
        Exists(req.params.id)
        => LET out == updateReview(req, books, nextId)
           IN  /\ out.message # "You have already reviewed this book"
               /\ Len(out.coll) = Len(books)
               /\ \A b \in 1..Len(books) : b # req.params.id => out.coll[b] = books[b]
               /\ UpdateFrame(req, books[req.params.id], out.coll[req.params.id])

\* the same frame for the updateReview requests that are answered 200
UpdateFrameWhenAnswered ==
    \A req \in ValidReviewReqs :
        (Exists(req.params.id) /\ updateReview(req, books, nextId).status = 200)
        => LET out == updateReview(req, books, nextId)
           IN  /\ Len(out.coll) = Len(books)
               /\ \A b \in 1..Len(books) : b # req.params.id => out.coll[b] = books[b]
               /\ UpdateFrame(req, books[req.params.id], out.coll[req.params.id])

====
